---- MODULE Spec2Model ----
(***************************************************************************)
(* Model of fetch_data1.py: a single sequential script that checks its     *)
(* credentials, geocodes a location, searches nearby businesses, pulls     *)
(* each business's review pages, writes a CSV and a scatter plot, runs the *)
(* per-review completion retry loop (analyze_reviews_batch) and finally    *)
(* prints a percentage cross-tabulation and one bar chart per business.    *)
(* pc is the position of the script; the external services answer          *)
(* nondeterministically at the step that calls them.                       *)
(***************************************************************************)
EXTENDS Integers, Sequences, FiniteSets, TLC

\* ------------------------------------------------------------ bounds ----
MaxPlaces == 2          \* longest list the nearby search returns
MaxPages == 2           \* most details pages the service serves per business
MaxReviews == 2         \* most reviews the service serves in one run
MaxBatch == 3           \* longest list handed to analyze_reviews_batch alone
MaxRows == 3            \* most AspectSentiment rows handed to the summary alone
MaxFetched == 3         \* most reviews handed to the extraction loop alone

\* --------------------------------------------------- program constants ----
retries == 3            \* analyze_reviews_batch(review_texts, retries=3)
RETRY_SLEEP == 1        \* time.sleep(1) in the retry loop
PAGE_SLEEP == 2         \* time.sleep(2) between details pages

\* ------------------------------------------------------------ values ----
\* Python None for a text field / a numeric field, and a key that is missing
\* from a service response (dict.get then yields its default).
NoneStr == "<None>"
NoneNum == -1
AbsentStr == "<absent>"
AbsentNum == -2

\* dict.get(key, default)
Get(v, absent, default) == IF v = absent THEN default ELSE v

\* Python truthiness of an optional token: None is falsy.
Truthy(tok) == tok # NoneStr

\* Places the nearby search can report.  Ratings are in tenths (45 is 4.5).
\* p3 shares its display name with p1; p2 lacks every optional key.
PlaceSet ==
    { [place_id |-> "p1", name |-> "Cafe", vicinity |-> "1 Main St",
       rating |-> 45, user_ratings_total |-> 120],
      [place_id |-> "p2", name |-> "Diner", vicinity |-> AbsentStr,
       rating |-> AbsentNum, user_ratings_total |-> AbsentNum],
      [place_id |-> "p3", name |-> "Cafe", vicinity |-> "9 Side Rd",
       rating |-> 38, user_ratings_total |-> 7] }

\* Sequences of length at most n over S.
SeqsUpTo(S, n) == UNION { [1..k -> S] : k \in 0..n }

\* The search reports each place at most once.
ResultLists ==
    { s \in SeqsUpTo(PlaceSet, MaxPlaces) :
        \A i, j \in 1..Len(s) : i # j => s[i].place_id # s[j].place_id }

\* Candidate lists the geocoder can return: none, one, or two different
\* candidates.
CandidateLists ==
    { <<>>,
      << [lat |-> 18, lng |-> 72] >>,
      << [lat |-> 19, lng |-> 73], [lat |-> 18, lng |-> 72] >> }

\* Reviews a details page can carry; the second has no "text" key.
ReviewSet == { [text |-> "good food", rating |-> 5],
               [text |-> AbsentStr, rating |-> AbsentNum] }
PageReviewLists == SeqsUpTo(ReviewSet, 1)

\* The continuation token the service hands out for page k of a place.
TokenOf(place_id, k) == place_id \o "-tok" \o ToString(k)

\* What json.loads can make of a non-empty completion text: a dict, given as
\* its items in order, or another JSON value (here a list).  A sentiment may
\* be JSON null.
Dict(items) == [kind |-> "dict", items |-> items]
NonDict == [kind |-> "list", items |-> <<>>]
ParsedValues ==
    { Dict(<<>>),
      Dict(<< <<"service", "positive">> >>),
      Dict(<< <<"service", "negative">>, <<"price", NoneStr>> >>),
      NonDict }
\* Ways an attempt can fail: the call raises, the text is empty after
\* strip(), or json.loads raises on it.
FailureKinds == { "raise", "empty", "unparseable" }

\* ------------------------------------------------------------- state ----
VARIABLES
    pc,                 \* position of the script
    exit_status,        \* -1 while running, else the process exit status
    API_KEY,            \* TRUE iff GOOGLE_MAPS_API_KEY is set and non-empty
    GEMINI_KEY,         \* TRUE iff GEMINI_API_KEY is set and non-empty
    geocode_result,     \* list returned by gmaps.geocode
    location,           \* "lat,lng" text handed to places_nearby
    results,            \* places_result.get("results", [])
    place_i,            \* index of the current place of "for place in results"
    business_data,      \* list of Place rows (rebound at line 179)
    reviews_data,       \* list of Review rows
    next_page_token,    \* continuation token of the pagination loop
    csv,                \* rows of competitor_data.csv, <<>> until written
    csv_written,        \* TRUE once to_csv has run
    aspect_results,     \* list of AspectSentiment rows
    uniq,               \* df_reviews["Business"].unique()
    biz_i,              \* index of the current business in uniq
    review_texts,       \* argument of the running analyze_reviews_batch
    batch_results,      \* its result list
    rev_i,              \* index of the current review in review_texts
    attempt,            \* loop variable of "for attempt in range(retries)"
    aspect_summary_percent, \* the percentage cross-tabulation
    maps_log,           \* history: every mapping-service call, its answer
                        \*   and the sleep that followed it
    attempt_log,        \* history: per review of the running batch, its
                        \*   attempts and the sleep that followed each
    last_outcome,       \* history: what the latest call of the running
                        \*   batch did
    extracted,          \* history: number of reviews whose result has
                        \*   been appended to a batch result
    sent,               \* history: the rows of reviews_data (by position)
                        \*   handed to analyze_reviews_batch, in order
    events,             \* history: the reporter outputs in order, and
                        \*   "llm" for each run of generate_content calls
    msgs                \* history: the messages printed that report an
                        \*   error, a skipped step or an early end

envVars == <<API_KEY, GEMINI_KEY>>
discVars == <<geocode_result, location, results, place_i, business_data,
              reviews_data, next_page_token>>
repVars == <<csv, csv_written, aspect_summary_percent>>
extVars == <<aspect_results, uniq, biz_i, review_texts, batch_results, rev_i,
             attempt>>
histVars == <<maps_log, attempt_log, last_outcome, extracted, sent,
              events, msgs>>
vars == <<pc, exit_status, envVars, discVars, repVars, extVars, histVars>>

NoTable == [index |-> {}, columns |-> {}, count |-> <<>>, pct |-> <<>>]

\* State shared by every initial state: nothing fetched, nothing written.
Blank ==
    /\ exit_status = -1
    /\ geocode_result = <<>>
    /\ location = ""
    /\ results = <<>>
    /\ place_i = 0
    /\ business_data = <<>>
    /\ reviews_data = <<>>
    /\ next_page_token = NoneStr
    /\ csv = <<>>
    /\ csv_written = FALSE
    /\ aspect_results = <<>>
    /\ uniq = <<>>
    /\ biz_i = 0
    /\ batch_results = <<>>
    /\ attempt = 0
    /\ aspect_summary_percent = NoTable
    /\ maps_log = <<>>
    /\ last_outcome = "none"
    /\ extracted = 0
    /\ sent = <<>>
    /\ events = <<>>
    /\ msgs = {}

\* The process starts at line 11 with whatever environment it was given.
Init ==
    /\ pc = "start"
    /\ API_KEY \in BOOLEAN
    /\ GEMINI_KEY \in BOOLEAN
    /\ review_texts = <<>>
    /\ rev_i = 0
    /\ attempt_log = <<>>
    /\ Blank

\* sys.exit(1) under a handler that catches everything ("except:"): the
\* exit ends in the top-level handler.
SysExitCaught(msg) ==
    /\ pc' = "handler"
    /\ msgs' = msgs \cup {msg}
    /\ UNCHANGED exit_status

\* The same exit written as sys.exit(0).
SysExitZero(msg) ==
    /\ pc' = "done"
    /\ exit_status' = 0
    /\ msgs' = msgs \cup {msg}

\* sys.exit(1): SystemExit is not an Exception, so "except Exception" at
\* line 187 lets it through and the process ends with status 1.
SysExit(msg) ==
    /\ pc' = "done"
    /\ exit_status' = 1
    /\ msgs' = msgs \cup {msg}

\* A failing statement wrapped in a retry: control stays where it is and
\* the statement runs again.
RaiseRetried ==
    /\ UNCHANGED <<pc, exit_status, msgs>>

\* An Exception raised inside the try block: control goes to line 187.
RaiseInTry ==
    /\ pc' = "handler"
    /\ UNCHANGED <<exit_status, msgs>>

\* One entry of maps_log: the operation, its location, place and token
\* arguments (when it has them), the length of the list it returned, the
\* token it returned, whether it raised instead, and the sleep that followed.
MapsCall(op, loc, id, tok, n, next, raised, slept) ==
    [op |-> op, location |-> loc, place_id |-> id, page_token |-> tok,
     n |-> n, next |-> next, raised |-> raised, slept |-> slept]

\* --------------------------------------------------- setup, lines 11-23 ----
\* Lines 14-16: either key missing ends the run with status 1.
CheckCredentials ==
    /\ pc = "start"
    /\ IF ~API_KEY \/ ~GEMINI_KEY
          THEN SysExit("Error: Please set keys")
          ELSE /\ pc' = "clients"
               /\ UNCHANGED <<exit_status, msgs>>
    /\ UNCHANGED <<envVars, discVars, repVars, extVars, maps_log,
                   attempt_log, last_outcome, extracted, sent, events>>

\* An exception outside the try block is not handled: the interpreter prints
\* a traceback and exits with status 1.
Uncaught ==
    /\ pc' = "done"
    /\ exit_status' = 1
    /\ msgs' = msgs \cup {"Traceback"}

\* Lines 18-23: the two client constructors and the two input() prompts run
\* before the try block; the constructors reject a malformed key and input()
\* raises EOFError on a closed stdin.
Setup ==
    /\ pc = "clients"
    /\ \E ok \in BOOLEAN :
          IF ok THEN /\ pc' = "geocode"
                     /\ UNCHANGED <<exit_status, msgs>>
                ELSE Uncaught
    /\ UNCHANGED <<envVars, discVars, repVars, extVars, maps_log,
                   attempt_log, last_outcome, extracted, sent, events>>

\* ----------------------------------------------- resolver, lines 63-70 ----
\* The candidate picked by position from the end of the list.
LastCandidate(cands) == cands[Len(cands)]

\* Lines 68-69: geocode_result[0], the first candidate.
FirstCandidate(cands) == cands[1]

\* Line 70: f"{lat},{lng}" (coordinates are in whole degrees here).
Coordinates(lat, lng) == ToString(lat) \o "," \o ToString(lng)

\* Lines 63-70: the geocode lookup; no candidate ends the run with status 1,
\* otherwise the first candidate gives the location of the search.
Geocode ==
    /\ pc = "geocode"
    /\ \/ /\ RaiseInTry
          /\ maps_log' = Append(maps_log,
                MapsCall("geocode", "", "", NoneStr, 0, NoneStr, TRUE, 0))
          /\ UNCHANGED <<geocode_result, location>>
       \/ \E cands \in CandidateLists :
             /\ geocode_result' = cands
             /\ maps_log' = Append(maps_log,
                   MapsCall("geocode", "", "", NoneStr, Len(cands),
                            NoneStr, FALSE, 0))
             /\ IF cands = <<>>
                   THEN /\ SysExit("Location not found.")
                        /\ UNCHANGED location
                   ELSE /\ location' = Coordinates(FirstCandidate(cands).lat,
                                                   FirstCandidate(cands).lng)
                        /\ pc' = "search"
                        /\ UNCHANGED <<exit_status, msgs>>
    /\ UNCHANGED <<envVars, results, place_i, business_data, reviews_data,
                   next_page_token, repVars, extVars, attempt_log,
                   last_outcome, extracted, sent, events>>

\* ---------------------------------------------- discovery, lines 73-124 ----
\* Lines 73-87: the nearby search; an empty list ends the run with status 1.
Search ==
    /\ pc = "search"
    /\ \/ /\ RaiseInTry
          /\ maps_log' = Append(maps_log,
                MapsCall("places_nearby", location, "", NoneStr, 0,
                         NoneStr, TRUE, 0))
          /\ UNCHANGED <<results, place_i, business_data, reviews_data>>
       \/ \E res \in ResultLists :
             /\ results' = res
             /\ maps_log' = Append(maps_log,
                   MapsCall("places_nearby", location, "", NoneStr,
                            Len(res), NoneStr, FALSE, 0))
             /\ IF res = <<>>
                   THEN /\ SysExit("No places found")
                        /\ UNCHANGED <<place_i, business_data, reviews_data>>
                   ELSE /\ business_data' = <<>>
                        /\ reviews_data' = <<>>
                        /\ place_i' = 1
                        /\ pc' = "place"
                        /\ UNCHANGED <<exit_status, msgs>>
    /\ UNCHANGED <<envVars, geocode_result, location, next_page_token,
                   repVars, extVars, attempt_log, last_outcome,
                   extracted, sent,
                   events>>

\* Lines 90-101: the Place row of one search result.
PlaceRow(place) ==
    [Business |-> Get(place.name, AbsentStr, "N/A"),
     Rating |-> Get(place.rating, AbsentNum, NoneNum),
     Reviews_Count |-> Get(place.user_ratings_total, AbsentNum, 0),
     Address |-> Get(place.vicinity, AbsentStr, "N/A")]

\* Lines 113-119: the Review row of one review of the current place.
ReviewRow(place, review) ==
    [Business |-> Get(place.name, AbsentStr, "N/A"),
     Review |-> Get(review.text, AbsentStr, ""),
     Rating |-> Get(review.rating, AbsentNum, NoneNum),
     Address |-> Get(place.vicinity, AbsentStr, "N/A"),
     Reviews_Count |-> Get(place.user_ratings_total, AbsentNum, 0)]

\* Rows keyed by display name: a place whose name is already there adds
\* nothing.
AddPlaceByName(rows, place) ==
    IF \E i \in 1..Len(rows) : rows[i].Business = PlaceRow(place).Business
       THEN rows ELSE Append(rows, PlaceRow(place))

\* Lines 96-101: every place adds one row, whatever its name.
AddPlace(rows, place) == Append(rows, PlaceRow(place))

\* Lines 89-104: head of "for place in results".
PlaceStart ==
    /\ pc = "place"
    /\ place_i <= Len(results)
    /\ business_data' = AddPlace(business_data, results[place_i])
    /\ next_page_token' = NoneStr
    /\ pc' = "details"
    /\ UNCHANGED <<exit_status, envVars, geocode_result, location, results,
                   place_i, reviews_data, repVars, extVars, histVars>>

\* Number of details calls made so far for the place with this id.
CallsFor(id) ==
    Cardinality({ i \in 1..Len(maps_log) :
                    maps_log[i].op = "place" /\ maps_log[i].place_id = id })

\* The test of line 122 inverted.
LoopEndsInverted(tok) == Truthy(tok)

\* Line 122: the pagination loop ends when the token is falsy.
LoopEnds(tok) == ~Truthy(tok)

\* A loop that never passes the token on.
PageTokenDropped(tok) == NoneStr

\* Lines 106-109: the page_token argument of the details call: the token
\* held when it is truthy, none otherwise.
PageToken(tok) == IF Truthy(tok) THEN tok ELSE NoneStr

\* Lines 105-124: one pass of the pagination loop: the details call (with
\* the token when there is one), the reviews appended, the new token read,
\* then either the break or the 2-unit sleep.
DetailsCall ==
    /\ pc = "details"
    /\ LET place == results[place_i]
           k == CallsFor(place.place_id) + 1
       IN
       \/ /\ RaiseInTry
          /\ maps_log' = Append(maps_log,
                MapsCall("place", "", place.place_id,
                         PageToken(next_page_token), 0,
                         NoneStr, TRUE, 0))
          /\ UNCHANGED <<reviews_data, next_page_token, place_i>>
       \/ \E reviews \in PageReviewLists,
             tok \in { NoneStr, TokenOf(place.place_id, k) } :
             /\ Len(reviews_data) + Len(reviews) <= MaxReviews
             /\ Truthy(tok) => k < MaxPages
             /\ maps_log' = Append(maps_log,
                   MapsCall("place", "", place.place_id,
                            PageToken(next_page_token), Len(reviews), tok,
                            FALSE,
                            IF LoopEnds(tok) THEN 0 ELSE PAGE_SLEEP))
             /\ reviews_data' = reviews_data \o
                   [j \in 1..Len(reviews) |-> ReviewRow(place, reviews[j])]
             /\ next_page_token' = tok
             /\ IF LoopEnds(tok)
                   THEN /\ place_i' = place_i + 1
                        /\ pc' = IF place_i + 1 <= Len(results)
                                    THEN "place" ELSE "csv"
                   ELSE /\ pc' = "details"
                        /\ UNCHANGED place_i
             /\ UNCHANGED <<exit_status, msgs>>
    /\ UNCHANGED <<envVars, geocode_result, location, results, business_data,
                   repVars, extVars, attempt_log, last_outcome,
                   extracted, sent, events>>

\* ----------------------------------------------- reporter, lines 126-142 ----
\* How to_csv writes a cell: None as the empty field, a float with its
\* decimal point, an integer as its digits, a text as it is (no text of the
\* model needs quoting).
CsvFloat(tenths) ==
    IF tenths = NoneNum THEN ""
    ELSE ToString(tenths \div 10) \o "." \o ToString(tenths % 10)
CsvInt(n) == IF n = NoneNum THEN "" ELSE ToString(n)
CsvRow(row) ==
    <<row.Business, CsvFloat(row.Rating), CsvInt(row.Reviews_Count),
      row.Address>>
CsvHeader == <<"Business", "Rating", "Reviews_Count", "Address">>

\* DataFrame(business_data).to_csv(..., index=False): the header and one
\* line per row, in list order.
ToCsv(rows) ==
    [header |-> CsvHeader, rows |-> [i \in 1..Len(rows) |-> CsvRow(rows[i])]]

\* Lines 127-131: write competitor_data.csv; the write can fail.
WriteCsv ==
    /\ pc = "csv"
    /\ \/ /\ RaiseInTry
          /\ UNCHANGED <<csv, csv_written, events>>
       \/ /\ csv' = ToCsv(business_data)
          /\ csv_written' = TRUE
          /\ events' = Append(events, "csv")
          /\ pc' = "scatter"
          /\ UNCHANGED <<exit_status, msgs>>
    /\ UNCHANGED <<envVars, discVars, aspect_summary_percent, extVars,
                   maps_log, attempt_log, last_outcome, extracted, sent>>

\* A Rating column holding only None keeps the None objects, and line 137
\* then adds 0.02 to None: TypeError.
AllRatingsNone(rows) == \A i \in 1..Len(rows) : rows[i].Rating = NoneNum

\* Lines 134-142: the scatter plot; plotting can fail, and does when no
\* business has a rating.
Scatter ==
    /\ pc = "scatter"
    /\ \/ /\ RaiseInTry
          /\ UNCHANGED events
       \/ /\ ~AllRatingsNone(business_data)
          /\ events' = Append(events, "scatter")
          /\ pc' = "reviews"
          /\ UNCHANGED <<exit_status, msgs>>
    /\ UNCHANGED <<envVars, discVars, repVars, extVars, maps_log,
                   attempt_log, last_outcome, extracted, sent>>

\* ---------------------------------------------- extractor, lines 26-165 ----
RECURSIVE Unique(_)
\* Series.unique(): the distinct values in order of first appearance.
Unique(s) ==
    IF s = <<>> THEN <<>>
    ELSE LET init == Unique(SubSeq(s, 1, Len(s) - 1))
             last == s[Len(s)]
         IN IF \E i \in 1..Len(init) : init[i] = last
               THEN init ELSE Append(init, last)

\* Lines 145-152: no review at all ends the run with status 1; otherwise
\* the loop over the distinct business names starts.
ReviewsCheck ==
    /\ pc = "reviews"
    /\ IF reviews_data = <<>>
          THEN /\ SysExit("No reviews found for these businesses.")
               /\ UNCHANGED <<aspect_results, uniq, biz_i>>
          ELSE /\ aspect_results' = <<>>
               /\ uniq' = Unique([i \in 1..Len(reviews_data) |->
                                     reviews_data[i].Business])
               /\ biz_i' = 1
               /\ pc' = "batch"
               /\ UNCHANGED <<exit_status, msgs>>
    /\ UNCHANGED <<envVars, discVars, repVars, review_texts, batch_results,
                   rev_i, attempt, maps_log, attempt_log, last_outcome,
                   extracted, sent, events>>

\* The same selection read from the last row to the first.
RowsOfReversed(business) ==
    LET rows == SelectSeq([i \in 1..Len(reviews_data) |-> i],
                          LAMBDA i : reviews_data[i].Business = business)
    IN [k \in 1..Len(rows) |-> rows[Len(rows) + 1 - k]]

\* Line 154, df_reviews["Business"] == business: the positions of the rows
\* carrying this business name, in row order.
RowsOf(business) ==
    SelectSeq([i \in 1..Len(reviews_data) |-> i],
              LAMBDA i : reviews_data[i].Business = business)

\* Line 154: the review texts of the rows carrying this business name.
ReviewsOf(business) ==
    [k \in 1..Len(RowsOf(business)) |->
        reviews_data[RowsOf(business)[k]].Review]

\* Where analyze_reviews_batch stands after line 31 for this argument: in
\* the first attempt of the first review, or at the return for no review.
BatchEntry(texts) == IF texts = <<>> THEN "collect" ELSE "attempt"

\* Lines 153-158 and 31: pick the next business name and call
\* analyze_reviews_batch on its reviews.
BatchStart ==
    /\ pc = "batch"
    /\ biz_i <= Len(uniq)
    /\ LET texts == ReviewsOf(uniq[biz_i])
       IN /\ review_texts' = texts
          /\ attempt_log' = [i \in 1..Len(texts) |-> <<>>]
          /\ pc' = BatchEntry(texts)
    /\ sent' = sent \o RowsOf(uniq[biz_i])
    /\ batch_results' = <<>>
    /\ rev_i' = 1
    /\ attempt' = 0
    /\ UNCHANGED <<exit_status, msgs, envVars, discVars, repVars, aspect_results,
                   uniq, biz_i, maps_log, last_outcome, extracted, events>>

\* A retry loop that runs one attempt too many.
MoreAttemptsOffByOne(a) == a < retries

\* Line 33: range(retries) has another value after this attempt.
MoreAttempts(a) == a + 1 < retries

\* After the current review is settled: the next review, or line 58.
NextReview ==
    /\ rev_i' = rev_i + 1
    /\ attempt' = 0
    /\ pc' = IF rev_i + 1 <= Len(review_texts) THEN "attempt" ELSE "collect"

\* The same without the "break": the retry loop goes on after a success,
\* and the for-else still runs after the last attempt.
SucceedNoBreak(v) ==
    /\ extracted' = extracted + 1
    /\ IF MoreAttempts(attempt)
          THEN /\ batch_results' = Append(batch_results, v)
               /\ attempt' = attempt + 1
               /\ UNCHANGED <<rev_i, pc>>
          ELSE /\ batch_results' = Append(Append(batch_results, v), Dict(<<>>))
               /\ NextReview

\* Lines 49-50: the parsed value is appended and "break" leaves the retry
\* loop of this review.
Succeed(v) ==
    /\ batch_results' = Append(batch_results, v)
    /\ extracted' = extracted + 1
    /\ NextReview

\* Giving up by raising instead: the error leaves analyze_reviews_batch.
GiveUpRaise ==
    /\ pc' = "handler"
    /\ UNCHANGED <<batch_results, extracted, rev_i, attempt>>

\* Lines 56-57: the for-else after the last failed attempt appends the
\* empty dict; nothing is raised.
GiveUp ==
    /\ batch_results' = Append(batch_results, Dict(<<>>))
    /\ extracted' = extracted + 1
    /\ NextReview

\* Lines 33-57: one attempt for the current review.  A parsed non-empty
\* text is appended and ends the retry loop; a raised error, an empty text
\* and an unparseable text all reach the sleep at line 55, and when
\* range(retries) is exhausted the for-else appends the empty dict.
Attempt ==
    /\ pc = "attempt"
    /\ events' = IF events # <<>> /\ events[Len(events)] = "llm"
                    THEN events ELSE Append(events, "llm")
    /\ \/ \E v \in ParsedValues :
             /\ last_outcome' = "parsed"
             /\ attempt_log' = [attempt_log EXCEPT
                   ![rev_i] = Append(@, [ok |-> TRUE, value |-> v,
                                         slept |-> 0])]
             /\ Succeed(v)
       \/ \E f \in FailureKinds :
             /\ last_outcome' = f
             /\ attempt_log' = [attempt_log EXCEPT
                   ![rev_i] = Append(@, [ok |-> FALSE, value |-> Dict(<<>>),
                                         slept |-> RETRY_SLEEP])]
             /\ IF MoreAttempts(attempt)
                   THEN /\ attempt' = attempt + 1
                        /\ UNCHANGED <<batch_results, extracted, rev_i, pc>>
                   ELSE GiveUp
    /\ UNCHANGED <<exit_status, envVars, discVars, repVars, aspect_results,
                   uniq, biz_i, review_texts, maps_log, sent, msgs>>

RECURSIVE AspectRows(_, _)
\* Lines 159-165: the rows appended for a list of parsed results, up to the
\* first result that is not a dict (it has no .items()).
AspectRows(business, batch) ==
    IF batch = <<>> \/ Head(batch).kind # "dict" THEN <<>>
    ELSE [i \in 1..Len(Head(batch).items) |->
             [Business |-> business,
              Aspect |-> Head(batch).items[i][1],
              Sentiment |-> Head(batch).items[i][2]]]
         \o AspectRows(business, Tail(batch))

\* The summary indented into the loop: it runs after the first batch.
AfterBatchFirstOnly(i) == "summary"

\* Line 153: after the batch of business i, the next distinct name, or the
\* summary once every name has been processed.
AfterBatch(i) == IF i + 1 <= Len(uniq) THEN "batch" ELSE "summary"

\* Lines 158-165: analyze_reviews_batch has returned; its results are turned
\* into AspectSentiment rows.  A result that is not a dict raises
\* AttributeError.  The frame of the call is gone and batch_aspects is not
\* read again, so the locals and the history of the batch are cleared.
Collect ==
    /\ pc = "collect"
    /\ aspect_results' =
          aspect_results \o AspectRows(uniq[biz_i], batch_results)
    /\ IF \E i \in 1..Len(batch_results) : batch_results[i].kind # "dict"
          THEN /\ pc' = "handler"
               /\ UNCHANGED biz_i
          ELSE /\ biz_i' = biz_i + 1
               /\ pc' = AfterBatch(biz_i)
    /\ review_texts' = <<>>
    /\ batch_results' = <<>>
    /\ rev_i' = 0
    /\ attempt' = 0
    /\ attempt_log' = <<>>
    /\ last_outcome' = "none"
    /\ UNCHANGED <<exit_status, envVars, discVars, repVars, uniq,
                   maps_log, extracted, sent, events, msgs>>

\* ------------------------------------------ IEEE-754 double arithmetic ----
\* aspect_summary.div(...) * 100 is computed in binary64.  Large naturals
\* are kept as limbs of LIMB_BITS bits, most significant first.  A positive
\* double is [m, e]: m the 53-bit significand as five limbs (the top limb is
\* the leading 1) and e the exponent of its last bit, so the value is
\* m * 2^e; 0.0 has no limbs.
LIMB_BITS == 13
LIMB == 8192
SIG_LIMBS == 5
FZero == [m |-> <<>>, e |-> 0]

RECURSIVE Pow2(_)
Pow2(n) == IF n = 0 THEN 1 ELSE 2 * Pow2(n - 1)

Max2(x, y) == IF x >= y THEN x ELSE y
PadTo(x, n) == [i \in 1..(n - Len(x)) |-> 0] \o x

RECURSIVE MulFrom(_, _, _, _)
\* x[1..i] * k + carry; the top limb takes whatever is left of the carry.
MulFrom(x, i, k, carry) ==
    IF i = 0 THEN (IF carry = 0 THEN <<>> ELSE <<carry>>)
    ELSE LET t == x[i] * k + carry
         IN Append(MulFrom(x, i - 1, k, t \div LIMB), t % LIMB)

\* Exact product of a natural number and a small k (the carry out of the
\* top limb is kept as one more limb).
NatMul(x, k) == MulFrom(x, Len(x), k, 0)

RECURSIVE AddFrom(_, _, _, _)
AddFrom(x, y, i, carry) ==
    IF i = 0 THEN (IF carry = 0 THEN <<>> ELSE <<carry>>)
    ELSE LET t == x[i] + y[i] + carry
         IN Append(AddFrom(x, y, i - 1, t \div LIMB), t % LIMB)

\* Exact sum of two natural numbers.
NatAdd(x, y) ==
    LET n == Max2(Len(x), Len(y))
    IN AddFrom(PadTo(x, n), PadTo(y, n), n, 0)

\* x <= y for two natural numbers.
NatLeq(x, y) ==
    LET n == Max2(Len(x), Len(y))
        a == PadTo(x, n)
        b == PadTo(y, n)
        D == { i \in 1..n : a[i] # b[i] }
    IN D = {} \/ (LET i == CHOOSE j \in D : \A l \in D : j <= l
                  IN a[i] < b[i])

\* x * 2^k.
NatShl(x, k) ==
    NatMul(x, Pow2(k % LIMB_BITS)) \o [i \in 1..(k \div LIMB_BITS) |-> 0]

\* Round-half-to-even has been decided by the caller: add one unit in the
\* last place when up; a carry out of the 53rd bit renormalises.
Rounded(keep, e, up) ==
    IF ~up THEN [m |-> keep, e |-> e]
    ELSE LET s == NatAdd(keep, <<1>>)
         IN IF s[1] = 2
               THEN [m |-> <<1, 0, 0, 0, 0>>, e |-> e + 1]
               ELSE [m |-> s, e |-> e]

RECURSIVE DivLimbs(_, _, _, _)
\* n more quotient limbs of r / d by long division: <<limbs, remainder>>.
DivLimbs(r, d, n, acc) ==
    IF n = 0 THEN <<acc, r>>
    ELSE DivLimbs((r * LIMB) % d, d, n - 1, Append(acc, (r * LIMB) \div d))

RECURSIVE NormShift(_, _)
\* Least s with c * 2^s >= d, for 0 < c.
NormShift(c, d) == IF c >= d THEN 0 ELSE 1 + NormShift(2 * c, d)

\* float(c) / float(d) for small naturals 0 <= c <= d, 0 < d: the quotient
\* rounded to 53 bits, to nearest, ties to even.
FDiv(c, d) ==
    IF c = 0 THEN FZero
    ELSE LET s == NormShift(c, d)
             q == DivLimbs(c * Pow2(s) - d, d, SIG_LIMBS - 1, <<1>>)
             keep == q[1]
             r == q[2]
             up == 2 * r > d \/ (2 * r = d /\ keep[SIG_LIMBS] % 2 = 1)
         IN Rounded(keep, 0 - s - LIMB_BITS * (SIG_LIMBS - 1), up)

\* x * k for a double x and a natural 64 <= k < 128: the exact product,
\* whose top limb is below 256, rounded to 53 bits, to nearest, ties to
\* even.
FMulSmall(x, k) ==
    IF x.m = <<>> THEN FZero
    ELSE LET p == NatMul(x.m, k)
             d == IF p[1] >= 128 THEN 7 ELSE 6
             w == Pow2(d)
             keep == [i \in 1..SIG_LIMBS |->
                        IF i = 1 THEN p[1] \div w
                        ELSE (p[i - 1] % w) * (LIMB \div w) + p[i] \div w]
             low == p[SIG_LIMBS] % w
             half == w \div 2
             up == low > half \/ (low = half /\ keep[SIG_LIMBS] % 2 = 1)
         IN Rounded(keep, x.e + d, up)

\* One cell of aspect_summary.div(row sum, axis=0) * 100.
Percent(count, total) == FMulSmall(FDiv(count, total), 100)


\* ----------------------------------------------- reporter, lines 167-185 ----
\* groupby(..., dropna=False): rows with a null sentiment form groups too.
GroupRowsKeepNull(rows) == rows

\* groupby([...]) leaves out every row with a missing key; only the
\* sentiment can be missing (JSON null), a JSON key is always a string.
GroupRows(rows) == SelectSeq(rows, LAMBDA r : r.Sentiment # NoneStr)

\* groupby(["Business", "Aspect", "Sentiment"]).size(): rows per group.
GroupSize(rows, pair, label) ==
    Cardinality({ i \in 1..Len(rows) :
                    /\ rows[i].Business = pair[1]
                    /\ rows[i].Aspect = pair[2]
                    /\ rows[i].Sentiment = label })

RECURSIVE RowSum(_, _, _)
\* aspect_summary.sum(axis=1): the sum of one row over the given columns.
RowSum(count, pair, columns) ==
    IF columns = {} THEN 0
    ELSE LET l == CHOOSE x \in columns : TRUE
         IN count[<<pair, l>>] + RowSum(count, pair, columns \ {l})

\* Lines 170-171: the count table (one row per business/aspect pair that
\* has a group, one column per label that has a group, 0 where a pair lacks
\* a label) and the same table with every row divided by its sum, times 100.
SummaryTable(rows) ==
    LET kept == GroupRows(rows)
        index == { <<kept[i].Business, kept[i].Aspect>> : i \in 1..Len(kept) }
        columns == { kept[i].Sentiment : i \in 1..Len(kept) }
        count == [c \in index \X columns |-> GroupSize(kept, c[1], c[2])]
    IN [index |-> index, columns |-> columns, count |-> count,
        pct |-> [c \in index \X columns |->
                    Percent(count[c], RowSum(count, c[1], columns))]]

\* Lines 167-174 and 184-185: with no AspectSentiment row only a message is
\* printed and the script ends; otherwise the percentage table is computed
\* and printed.  When every row has a null sentiment the grouped frame is
\* empty; pandas versions differ on whether unstack then raises.
Summary ==
    /\ pc = "summary"
    /\ IF aspect_results = <<>>
          THEN /\ msgs' = msgs \cup {"No aspect sentiment detected."}
               /\ pc' = "done"
               /\ exit_status' = 0
               /\ UNCHANGED <<aspect_summary_percent, events, biz_i>>
          ELSE \/ /\ GroupRows(aspect_results) = <<>>
                  /\ RaiseInTry
                  /\ UNCHANGED <<aspect_summary_percent, events, biz_i>>
               \/ /\ aspect_summary_percent' = SummaryTable(aspect_results)
                  /\ events' = Append(events, "table")
                  /\ biz_i' = 1
                  /\ pc' = "bars"
                  /\ UNCHANGED <<exit_status, msgs>>
    /\ UNCHANGED <<envVars, discVars, csv, csv_written, aspect_results, uniq,
                   review_texts, batch_results, rev_i, attempt, maps_log,
                   attempt_log, last_outcome, extracted, sent>>

\* The test of line 178 written as "the table has rows".
InIndexNonEmpty(table, business) == table.index # {}

\* Line 178: a business name is in the two-level index when some pair of
\* the index starts with it.
InIndex(table, business) == \E c \in table.index : c[1] = business

\* Line 179: aspect_summary_percent.loc[business].
Loc(table, business) ==
    [a \in { c[2] : c \in { x \in table.index : x[1] = business } } |->
        [l \in table.columns |-> table.pct[<< <<business, a>>, l >>]]]

\* After one pass of the loop at line 177: the next name, or the end of
\* the script with the implicit status 0.
NextBar ==
    /\ biz_i' = biz_i + 1
    /\ pc' = IF biz_i + 1 <= Len(uniq) THEN "bars" ELSE "done"
    /\ exit_status' = IF biz_i + 1 <= Len(uniq) THEN exit_status ELSE 0

\* Lines 177-183: one pass of the plotting loop: a bar chart for a name of
\* the index (business_data is rebound to its slice), nothing otherwise.
BarPlot ==
    /\ pc = "bars"
    /\ LET business == uniq[biz_i]
       IN IF InIndex(aspect_summary_percent, business)
             THEN /\ business_data' = Loc(aspect_summary_percent, business)
                  /\ \/ /\ RaiseInTry
                        /\ UNCHANGED <<events, biz_i>>
                     \/ /\ events' = Append(events, "bar:" \o business)
                        /\ NextBar
                        /\ UNCHANGED msgs
             ELSE /\ NextBar
                  /\ UNCHANGED <<business_data, events, msgs>>
    /\ UNCHANGED <<envVars, geocode_result, location, results, place_i,
                   reviews_data, next_page_token, repVars, aspect_results,
                   uniq, review_texts, batch_results, rev_i, attempt,
                   maps_log, attempt_log, last_outcome, extracted, sent>>

\* A handler that ends with sys.exit(1) after printing.
HandlerExitsOne ==
    /\ pc = "handler"
    /\ msgs' = msgs \cup {"An unexpected error occurred"}
    /\ pc' = "done"
    /\ exit_status' = 1
    /\ UNCHANGED <<envVars, discVars, repVars, extVars, maps_log,
                   attempt_log, last_outcome, extracted, sent, events>>

\* Lines 187-188: the top-level handler prints the error; the script then
\* ends normally, with status 0.
Handler ==
    /\ pc = "handler"
    /\ msgs' = msgs \cup {"An unexpected error occurred"}
    /\ pc' = "done"
    /\ exit_status' = 0
    /\ UNCHANGED <<envVars, discVars, repVars, extVars, maps_log,
                   attempt_log, last_outcome, extracted, sent, events>>

\* ----------------------------------------------------- specifications ----
Next ==
    \/ CheckCredentials
    \/ Setup
    \/ Geocode
    \/ Search
    \/ PlaceStart
    \/ DetailsCall
    \/ WriteCsv
    \/ Scatter
    \/ ReviewsCheck
    \/ BatchStart
    \/ Attempt
    \/ Collect
    \/ Summary
    \/ BarPlot
    \/ Handler

\* The whole script, from line 11.
Spec == Init /\ [][Next]_vars

\* analyze_reviews_batch on its own: any list of review texts, from the
\* state right after line 31, to its return.
TextSet == { "", "good food" }

InitBatch ==
    /\ review_texts \in SeqsUpTo(TextSet, MaxBatch)
    /\ pc = BatchEntry(review_texts)
    /\ API_KEY = TRUE
    /\ GEMINI_KEY = TRUE
    /\ rev_i = 1
    /\ attempt_log = [i \in 1..Len(review_texts) |-> <<>>]
    /\ Blank

NextBatch == Attempt

SpecBatch == InitBatch /\ [][NextBatch]_vars

\* The extraction loop on its own, from the check of line 145 to the end of
\* the loop of line 153: any list of up to three places with their reviews
\* that discovery can leave behind once the CSV is written and the scatter
\* plot shown (so some place has a rating).
FoundLists ==
    { s \in SeqsUpTo(PlaceSet, Cardinality(PlaceSet)) :
        /\ s # <<>>
        /\ \A i, j \in 1..Len(s) : i # j => s[i].place_id # s[j].place_id }

\* The reviews fetched for one place: none, one, or two of which the first
\* has no text.
FetchedLists ==
    { <<>>,
      << [text |-> "good food", rating |-> 5] >>,
      << [text |-> AbsentStr, rating |-> AbsentNum],
         [text |-> "good food", rating |-> 5] >> }

RECURSIVE TotalLen(_, _)
\* Number of reviews fetched for the first n places.
TotalLen(fetched, n) ==
    IF n = 0 THEN 0 ELSE TotalLen(fetched, n - 1) + Len(fetched[n])

RECURSIVE FetchedRows(_, _, _)
\* Lines 89-119 for the first n places: their Review rows, place by place.
FetchedRows(places, fetched, n) ==
    IF n = 0 THEN <<>>
    ELSE FetchedRows(places, fetched, n - 1) \o
         [j \in 1..Len(fetched[n]) |-> ReviewRow(places[n], fetched[n][j])]

InitExtract ==
    /\ pc = "reviews"
    /\ exit_status = -1
    /\ API_KEY = TRUE
    /\ GEMINI_KEY = TRUE
    /\ geocode_result = <<>>
    /\ location = ""
    /\ results \in FoundLists
    /\ place_i = Len(results) + 1
    /\ business_data = [i \in 1..Len(results) |-> PlaceRow(results[i])]
    /\ ~AllRatingsNone(business_data)
    /\ \E fetched \in [1..Len(results) -> FetchedLists] :
          /\ TotalLen(fetched, Len(results)) <= MaxFetched
          /\ reviews_data = FetchedRows(results, fetched, Len(results))
    /\ next_page_token = NoneStr
    /\ csv = ToCsv(business_data)
    /\ csv_written = TRUE
    /\ aspect_results = <<>>
    /\ uniq = <<>>
    /\ biz_i = 0
    /\ review_texts = <<>>
    /\ batch_results = <<>>
    /\ rev_i = 0
    /\ attempt = 0
    /\ aspect_summary_percent = NoTable
    /\ maps_log = <<>>
    /\ attempt_log = <<>>
    /\ last_outcome = "none"
    /\ extracted = 0
    /\ sent = <<>>
    /\ events = <<"csv", "scatter">>
    /\ msgs = {}

NextExtract ==
    \/ ReviewsCheck
    \/ BatchStart
    \/ Attempt
    \/ Collect

SpecExtract == InitExtract /\ [][NextExtract]_vars

\* The summary and the bar charts on their own: any list of AspectSentiment
\* rows the extraction loop can leave behind (the rows of a business name
\* are contiguous, in the order of the names), from line 167 on.
RowSet ==
    [Business : {"Cafe", "Diner"}, Aspect : {"service", "price"},
     Sentiment : {"positive", "negative", NoneStr}]
NameLists ==
    { <<"Cafe">>, <<"Diner">>, <<"Cafe", "Diner">>, <<"Diner", "Cafe">> }

\* Position of a name in a list of distinct names (0 when absent).
IndexIn(names, name) ==
    IF \E i \in 1..Len(names) : names[i] = name
       THEN CHOOSE i \in 1..Len(names) : names[i] = name
       ELSE 0

InitSummary ==
    /\ pc = "summary"
    /\ exit_status = -1
    /\ API_KEY = TRUE
    /\ GEMINI_KEY = TRUE
    /\ geocode_result = <<>>
    /\ location = ""
    /\ results = <<>>
    /\ place_i = 0
    /\ business_data = <<>>
    /\ reviews_data = <<>>
    /\ next_page_token = NoneStr
    /\ csv = <<>>
    /\ csv_written = TRUE
    /\ aspect_results \in SeqsUpTo(RowSet, MaxRows)
    /\ uniq \in NameLists
    /\ \A i \in 1..Len(aspect_results) :
          IndexIn(uniq, aspect_results[i].Business) > 0
    /\ \A i, j \in 1..Len(aspect_results) :
          i < j => IndexIn(uniq, aspect_results[i].Business)
                      <= IndexIn(uniq, aspect_results[j].Business)
    /\ biz_i = Len(uniq) + 1
    /\ review_texts = <<>>
    /\ batch_results = <<>>
    /\ rev_i = 0
    /\ attempt = 0
    /\ aspect_summary_percent = NoTable
    /\ maps_log = <<>>
    /\ attempt_log = <<>>
    /\ last_outcome = "none"
    /\ extracted = 0
    /\ sent = <<>>
    /\ events = <<"csv", "scatter", "llm">>
    /\ msgs = {}

NextSummary ==
    \/ Summary
    \/ BarPlot
    \/ Handler

SpecSummary == InitSummary /\ [][NextSummary]_vars

\* ------------------------------------------------------------ claims ----
\* The attempts of review i of the running batch all failed.
AllFailed(i) == \A j \in 1..Len(attempt_log[i]) : ~attempt_log[i][j].ok

\* The value of the first successful attempt in a log, the empty dict when
\* there is none.
FirstParse(log) ==
    IF \E j \in 1..Len(log) : log[j].ok
       THEN log[CHOOSE j \in 1..Len(log) :
                   log[j].ok /\ \A l \in 1..(j - 1) : ~log[l].ok].value
       ELSE Dict(<<>>)

\* C1: every review of a batch gets at least 1 and at most 3 completion
\* calls, whatever each call does, and no call follows the first attempt
\* whose text parsed: a successful attempt is the last of its review.
C1_CallsPerReview ==
    \A i \in 1..Len(attempt_log) :
       /\ Len(attempt_log[i]) <= 3
       /\ (i < rev_i => Len(attempt_log[i]) >= 1)
       /\ (i > rev_i => Len(attempt_log[i]) = 0)
       /\ \A j \in 1..(Len(attempt_log[i]) - 1) : ~attempt_log[i][j].ok

\* A returned batch in which one review used all three calls and succeeded on
\* the last, and another succeeded on its first.
C1_Witness ==
    /\ pc = "collect"
    /\ \E i, j \in 1..Len(attempt_log) :
          /\ Len(attempt_log[i]) = 3
          /\ attempt_log[i][3].ok
          /\ Len(attempt_log[j]) = 1

\* C2: when all 3 attempts of a review have failed, the result recorded for
\* it is the empty dict, no exception has left analyze_reviews_batch, and
\* the function has moved on to the next review (or to its return).
C2_ExhaustedGivesEmpty ==
    /\ pc \in {"attempt", "collect"}
    /\ \A i \in 1..Len(attempt_log) :
          (Len(attempt_log[i]) = 3 /\ AllFailed(i)) =>
             /\ rev_i > i
             /\ Len(batch_results) >= i
             /\ batch_results[i] = Dict(<<>>)
             /\ pc = IF rev_i <= Len(review_texts) THEN "attempt"
                                                   ELSE "collect"

\* A review whose three attempts failed, followed by a review that has been
\* attempted.
C2_Witness ==
    \E i \in 1..(Len(attempt_log) - 1) :
       /\ Len(attempt_log[i]) = 3
       /\ AllFailed(i)
       /\ Len(attempt_log[i + 1]) >= 1

\* C3: the result list grows by one entry per settled review, in input
\* order, and at the return it has exactly one entry per input review, entry
\* i being the parse of review i's first successful attempt, or the empty
\* dict when review i had none.
C3_OneEntryPerReview ==
    /\ pc \in {"attempt", "collect"} => Len(batch_results) = rev_i - 1
    /\ pc = "collect" => Len(batch_results) = Len(review_texts)
    /\ \A i \in 1..Len(attempt_log) :
          i < rev_i =>
             /\ i <= Len(batch_results)
             /\ batch_results[i] = FirstParse(attempt_log[i])

\* A returned batch of at least two reviews with two different entries, one
\* of them parsed on a second attempt and one given up.
C3_Witness ==
    /\ pc = "collect"
    /\ Len(review_texts) >= 2
    /\ \E i, j \in 1..Len(batch_results) :
          /\ i < j
          /\ Len(attempt_log[i]) = 2
          /\ batch_results[i] = Dict(<< <<"service", "positive">> >>)
          /\ AllFailed(j)
          /\ batch_results[j] = Dict(<<>>)

\* Entry i of maps_log is the first details call for its place.
FirstDetails(i) ==
    /\ maps_log[i].op = "place"
    /\ \A j \in 1..(i - 1) :
          ~(maps_log[j].op = "place"
            /\ maps_log[j].place_id = maps_log[i].place_id)

\* The pagination loop of the place with this id is still running.
Paging(id) == pc = "details" /\ results[place_i].place_id = id

\* C4 as stated: a business whose first details response holds zero reviews
\* gets exactly one details call, whatever else the response contains.
C4_Original ==
    \A i \in 1..Len(maps_log) :
       (FirstDetails(i) /\ ~maps_log[i].raised /\ maps_log[i].n = 0) =>
          CallsFor(maps_log[i].place_id) = 1

\* C4 (amended): a business whose first details response holds zero reviews
\* and no continuation token gets exactly one details call and its loop has
\* stopped; when that response carries a token the loop goes on with it, so
\* the next call for the business, once made, carries exactly that token.
C4_ZeroReviewsStopOnlyWithoutToken ==
    \A i \in 1..Len(maps_log) :
       (FirstDetails(i) /\ ~maps_log[i].raised /\ maps_log[i].n = 0) =>
          IF maps_log[i].next = NoneStr
             THEN /\ CallsFor(maps_log[i].place_id) = 1
                  /\ ~Paging(maps_log[i].place_id)
             ELSE \/ /\ i = Len(maps_log)
                     /\ Paging(maps_log[i].place_id)
                     /\ next_page_token = maps_log[i].next
                  \/ /\ i < Len(maps_log)
                     /\ maps_log[i + 1].op = "place"
                     /\ maps_log[i + 1].place_id = maps_log[i].place_id
                     /\ maps_log[i + 1].page_token = maps_log[i].next

\* Discovery is over; one business answered with no review and no token and
\* got one call, another answered with no review but a token and got two.
C4_Witness ==
    /\ pc = "csv"
    /\ \E i, j \in 1..Len(maps_log) :
          /\ FirstDetails(i) /\ ~maps_log[i].raised
          /\ maps_log[i].n = 0 /\ maps_log[i].next = NoneStr
          /\ CallsFor(maps_log[i].place_id) = 1
          /\ FirstDetails(j) /\ ~maps_log[j].raised
          /\ maps_log[j].n = 0 /\ maps_log[j].next # NoneStr
          /\ CallsFor(maps_log[j].place_id) = 2

\* The call with this name answered (did not raise) with an empty list.
AnsweredEmpty(op) ==
    \E i \in 1..Len(maps_log) :
       maps_log[i].op = op /\ ~maps_log[i].raised /\ maps_log[i].n = 0

\* Number of calls of this operation so far.
CallsOf(op) == Cardinality({ i \in 1..Len(maps_log) : maps_log[i].op = op })

\* C5: once the nearby search has answered with an empty list the run is
\* over with exit status 1, and there has been no details call, no
\* completion call, no CSV write and no plot; the handler has not run.
C5_EmptySearchExitsFirst ==
    AnsweredEmpty("places_nearby") =>
       /\ pc = "done"
       /\ exit_status = 1
       /\ CallsOf("place") = 0
       /\ events = <<>>
       /\ ~csv_written
       /\ "An unexpected error occurred" \notin msgs

\* The search answered with an empty list and the run has ended.
C5_Witness ==
    /\ AnsweredEmpty("places_nearby")
    /\ pc = "done"
    /\ "No places found" \in msgs

\* Every place of a non-empty search result has been through its
\* pagination loop.
DiscoveryComplete == results # <<>> /\ place_i = Len(results) + 1

\* The run got to the check of line 145 (the CSV and the scatter plot are
\* out) and there was no review.
NoReviewsAtCheck ==
    /\ DiscoveryComplete
    /\ reviews_data = <<>>
    /\ Len(events) >= 2
    /\ events[1] = "csv"
    /\ events[2] = "scatter"

\* C6 as stated: a run that reaches the sentiment step with no review ends
\* with the success status.
C6_Original ==
    (pc = "done" /\ NoReviewsAtCheck) => exit_status = 0

\* C6 (amended): a run that reaches the sentiment step with no review skips
\* it with the message "No reviews found for these businesses." and ends
\* with exit status 1, no completion call made; only the run in which
\* every review was processed and no AspectSentiment row came out prints
\* "No aspect sentiment detected." and ends with status 0, without a table.
C6_NoReviewsIsFailure ==
    /\ (pc = "done" /\ NoReviewsAtCheck) =>
          /\ exit_status = 1
          /\ "No reviews found for these businesses." \in msgs
          /\ events = <<"csv", "scatter">>
    /\ (/\ pc = "done"
        /\ uniq # <<>>
        /\ biz_i = Len(uniq) + 1
        /\ aspect_results = <<>>) =>
          /\ exit_status = 0
          /\ "No aspect sentiment detected." \in msgs
          /\ events = <<"csv", "scatter", "llm">>

\* Two businesses were found, none had a review, and the run has ended after
\* the scatter plot.
C6_Witness ==
    /\ pc = "done"
    /\ NoReviewsAtCheck
    /\ Len(results) = 2

\* The four cases C7 names.
FourCases ==
    \/ ~API_KEY
    \/ ~GEMINI_KEY
    \/ AnsweredEmpty("geocode")
    \/ AnsweredEmpty("places_nearby")
    \/ NoReviewsAtCheck

IsOutput(e) == e # "llm"

\* C8 as stated: once any reporter output exists, every collected review has
\* been processed by the extractor, and no completion call follows a
\* reporter output.
C8_Original ==
    /\ (\E i \in 1..Len(events) : IsOutput(events[i])) =>
          extracted = Len(reviews_data)
    /\ \A i, j \in 1..Len(events) :
          (i < j /\ IsOutput(events[i])) => events[j] # "llm"

\* Position of an event in the order csv, scatter, completion calls,
\* percentage table, bar charts.
Rank(e) ==
    CASE e = "csv" -> 1
      [] e = "scatter" -> 2
      [] e = "llm" -> 3
      [] e = "table" -> 4
      [] OTHER -> 5

\* C8 (amended): geocode and nearby search are each called at most once, in
\* that order, before any details call; the CSV write and then the scatter
\* plot happen once, after all review fetching and before any completion
\* call; the percentage table and the bar charts come only after the
\* extractor has processed every collected review, and no completion call
\* follows them.
C8_StageOrder ==
    /\ CallsOf("geocode") <= 1
    /\ CallsOf("places_nearby") <= 1
    /\ \A i, j \in 1..Len(maps_log) :
          i < j => /\ maps_log[j].op # "geocode"
                   /\ maps_log[j].op = "places_nearby" =>
                         maps_log[i].op = "geocode"
    /\ \A i, j \in 1..Len(events) :
          i < j => /\ Rank(events[i]) <= Rank(events[j])
                   /\ Rank(events[i]) < 5 => Rank(events[i]) < Rank(events[j])
    /\ events # <<>> => (DiscoveryComplete /\ events[1] = "csv")
    /\ (\E i \in 1..Len(events) : Rank(events[i]) >= 4) =>
          /\ extracted = Len(reviews_data)
          /\ extracted > 0
          /\ \E j \in 1..Len(events) : events[j] = "llm"

\* A run over two reviews that wrote the CSV, showed the scatter plot, made
\* its completion calls, printed the table and showed a bar chart.
C8_Witness ==
    /\ Len(events) >= 5
    /\ events[3] = "llm"
    /\ events[4] = "table"
    /\ extracted = 2

\* C9: the written CSV has one line per place of the search result, in
\* search order; line i holds the name, rating, review count and address of
\* place i (with the defaults for missing keys), each written so that
\* different values give different cells.
C9_CsvRows ==
    csv_written =>
       /\ DiscoveryComplete
       /\ csv.header = <<"Business", "Rating", "Reviews_Count", "Address">>
       /\ Len(csv.rows) = Len(results)
       /\ \A i \in 1..Len(results) :
             /\ csv.rows[i][1] =
                   (IF results[i].name = AbsentStr THEN "N/A"
                    ELSE results[i].name)
             /\ csv.rows[i][2] =
                   (IF results[i].rating = AbsentNum THEN ""
                    ELSE ToString(results[i].rating \div 10) \o "." \o
                         ToString(results[i].rating % 10))
             /\ csv.rows[i][3] =
                   (IF results[i].user_ratings_total = AbsentNum THEN "0"
                    ELSE ToString(results[i].user_ratings_total))
             /\ csv.rows[i][4] =
                   (IF results[i].vicinity = AbsentStr THEN "N/A"
                    ELSE results[i].vicinity)
       /\ \A i, j \in 1..Len(results) :
             csv.rows[i] = csv.rows[j] => PlaceRow(results[i]) = PlaceRow(results[j])

\* The CSV of two places with the same display name, one of which had two
\* review pages.
C9_Witness ==
    /\ csv_written
    /\ Len(results) = 2
    /\ results[1].name = results[2].name
    /\ \E i \in 1..2 : CallsFor(results[i].place_id) = 2

\* Rows of aspect_results with this business, aspect and sentiment label.
PairCount(pair, label) ==
    Cardinality({ i \in 1..Len(aspect_results) :
                    /\ aspect_results[i].Business = pair[1]
                    /\ aspect_results[i].Aspect = pair[2]
                    /\ aspect_results[i].Sentiment = label })

\* T: rows of aspect_results with this business and aspect that carry a
\* sentiment label.
PairTotal(pair) ==
    Cardinality({ i \in 1..Len(aspect_results) :
                    /\ aspect_results[i].Business = pair[1]
                    /\ aspect_results[i].Aspect = pair[2]
                    /\ aspect_results[i].Sentiment # NoneStr })

RECURSIVE CountSum(_, _)
\* Sum of the per-label counts of a pair over a set of labels.
CountSum(pair, labels) ==
    IF labels = {} THEN 0
    ELSE LET l == CHOOSE x \in labels : TRUE
         IN PairCount(pair, l) + CountSum(pair, labels \ {l})

\* Percentages are summed exactly, as multiples of 2^-SUM_SCALE (65, below
\* the last bit of any percentage of the table).
SUM_SCALE == SIG_LIMBS * LIMB_BITS
Scaled(x) == NatShl(x.m, x.e + SUM_SCALE)

RECURSIVE PctSum(_, _, _)
\* Exact sum of the percentages of one row of a table.
PctSum(table, pair, labels) ==
    IF labels = {} THEN <<>>
    ELSE LET l == CHOOSE x \in labels : TRUE
         IN NatAdd(Scaled(table.pct[<<pair, l>>]),
                   PctSum(table, pair, labels \ {l}))

Hundred == NatShl(<<100>>, SUM_SCALE)
\* 2^-44, four units in the last place of the double 100.0.
Tolerance == NatShl(<<1>>, SUM_SCALE - 44)

\* The percentage table has been computed.
HasTable == aspect_summary_percent # NoTable

\* What C10 says apart from the sum of the percentages: the rows of the
\* table are exactly the pairs with T > 0, every percentage is the double
\* count / T * 100, and the per-label counts of a pair sum to T.
TableCells ==
    LET t == aspect_summary_percent
    IN /\ \A c \in t.index : PairTotal(c) > 0
       /\ \A i \in 1..Len(aspect_results) :
             aspect_results[i].Sentiment # NoneStr =>
                <<aspect_results[i].Business, aspect_results[i].Aspect>>
                   \in t.index
       /\ \A c \in t.index :
             /\ CountSum(c, t.columns) = PairTotal(c)
             /\ \A l \in t.columns :
                   t.pct[<<c, l>>] = Percent(PairCount(c, l), PairTotal(c))

\* C10 as stated: the above, and the percentages of every pair sum to 100.
C10_Original ==
    HasTable =>
       /\ TableCells
       /\ \A c \in aspect_summary_percent.index :
             LET sum == PctSum(aspect_summary_percent, c,
                               aspect_summary_percent.columns)
             IN NatLeq(sum, Hundred) /\ NatLeq(Hundred, sum)

\* C10 (amended): the above, and the percentages of every pair sum to 100
\* up to the rounding of the two double operations: the exact sum is
\* within 2^-44 of 100.
C10_PercentagesSumTo100Rounded ==
    HasTable =>
       /\ TableCells
       /\ \A c \in aspect_summary_percent.index :
             LET sum == PctSum(aspect_summary_percent, c,
                               aspect_summary_percent.columns)
             IN /\ NatLeq(sum, NatAdd(Hundred, Tolerance))
                /\ NatLeq(Hundred, NatAdd(sum, Tolerance))

\* A table with a pair of T = 3 split 1 to 2 between two labels, next to a
\* row that was left out for its null sentiment.
C10_Witness ==
    /\ HasTable
    /\ \E c \in aspect_summary_percent.index :
          /\ PairTotal(c) = 3
          /\ \E l \in aspect_summary_percent.columns : PairCount(c, l) = 1

\* C11: every nearby search was issued after a geocode lookup that returned
\* at least one candidate, and the location it was given is the latitude and
\* the longitude of the first candidate of that list, as "lat,lng"; once the
\* lookup has returned no candidate, no nearby search has been issued and the
\* run is over with exit status 1.
C11_FirstCandidateUsed ==
    /\ \A i \in 1..Len(maps_log) :
          maps_log[i].op = "places_nearby" =>
             /\ geocode_result # <<>>
             /\ maps_log[i].location =
                   ToString(geocode_result[1].lat) \o "," \o
                   ToString(geocode_result[1].lng)
             /\ \A k \in 2..Len(geocode_result) :
                   geocode_result[k] # geocode_result[1] =>
                      maps_log[i].location #
                         ToString(geocode_result[k].lat) \o "," \o
                         ToString(geocode_result[k].lng)
    /\ AnsweredEmpty("geocode") =>
          /\ CallsOf("places_nearby") = 0
          /\ pc = "done"
          /\ exit_status = 1

\* A nearby search issued after a lookup that returned two different
\* candidates.
C11_Witness ==
    /\ Len(geocode_result) = 2
    /\ geocode_result[1] # geocode_result[2]
    /\ CallsOf("places_nearby") = 1

\* C12: the details calls of a business follow the continuation protocol.
\* Its first call carries no token.  Every later call comes right after the
\* previous call for the same business, which answered with a token and was
\* followed by one 2-unit sleep, and carries exactly that token.  A response
\* without a token is followed by no sleep and by no further call for the
\* business, whose loop is over.  A token is never carried by a call for a
\* business other than the one whose response returned it.
C12_ContinuationProtocol ==
    \A i \in 1..Len(maps_log) :
       maps_log[i].op = "place" =>
          /\ FirstDetails(i) => maps_log[i].page_token = NoneStr
          /\ ~FirstDetails(i) =>
                /\ maps_log[i - 1].op = "place"
                /\ maps_log[i - 1].place_id = maps_log[i].place_id
                /\ ~maps_log[i - 1].raised
                /\ maps_log[i - 1].next # NoneStr
                /\ maps_log[i].page_token = maps_log[i - 1].next
                /\ maps_log[i - 1].slept = 2
          /\ (~maps_log[i].raised /\ maps_log[i].next # NoneStr) =>
                /\ maps_log[i].slept = 2
                /\ \/ i < Len(maps_log)
                   \/ Paging(maps_log[i].place_id)
          /\ (~maps_log[i].raised /\ maps_log[i].next = NoneStr) =>
                /\ maps_log[i].slept = 0
                /\ ~Paging(maps_log[i].place_id)
                /\ \A j \in (i + 1)..Len(maps_log) :
                      maps_log[j].place_id # maps_log[i].place_id
          /\ \A j \in 1..Len(maps_log) :
                (/\ maps_log[j].op = "place"
                 /\ maps_log[j].page_token # NoneStr
                 /\ maps_log[j].page_token = maps_log[i].next) =>
                   maps_log[j].place_id = maps_log[i].place_id

\* Discovery of two businesses is over; the first took two details calls,
\* the second of them with the token of the first, and the other business
\* was then fetched from its first page.
C12_Witness ==
    /\ pc = "csv"
    /\ Len(results) = 2
    /\ CallsFor(results[1].place_id) = 2
    /\ CallsFor(results[2].place_id) >= 1
    /\ maps_log[4].page_token = maps_log[3].next
    /\ maps_log[4].page_token # NoneStr

\* Number of attempts in a log that were followed by a sleep.
Delays(log) == Cardinality({ j \in 1..Len(log) : log[j].slept > 0 })

\* C13: a 1-unit delay occurs only between two consecutive attempts on the
\* same review: a failed first or second attempt is followed by exactly one
\* delay, a successful attempt and the third attempt of a review are
\* followed by none, and a settled review that used k attempts incurred
\* k-1 delays.
C13_DelaysOnlyBetweenAttempts ==
    \A i \in 1..Len(attempt_log) :
       /\ \A j \in 1..Len(attempt_log[i]) :
             /\ attempt_log[i][j].ok => attempt_log[i][j].slept = 0
             /\ (~attempt_log[i][j].ok /\ j < 3) =>
                   attempt_log[i][j].slept = 1
             /\ j = 3 => attempt_log[i][j].slept = 0
       /\ i < rev_i => Delays(attempt_log[i]) = Len(attempt_log[i]) - 1

\* C14: once a mapping-service call (geocode, nearby search or details) has
\* raised, it is the last mapping-service call of the run: neither it nor any
\* other request is issued afterwards.  Control is in the top-level handler
\* or past it, and past it the message has been printed and the run has
\* ended through the handler.  No completion call, no CSV write and no plot
\* has happened; in particular the CSV is not written after a details
\* failure.
C14_NoRetryOfMapsCalls ==
    \A i \in 1..Len(maps_log) :
       maps_log[i].raised =>
          /\ i = Len(maps_log)
          /\ pc \in {"handler", "done"}
          /\ pc = "done" =>
                /\ "An unexpected error occurred" \in msgs
                /\ exit_status = 0
          /\ events = <<>>
          /\ ~csv_written
          /\ csv = <<>>
          /\ extracted = 0

\* A run that ended after the details call of the second business raised,
\* the first business having been fetched through two pages.
C14_Witness ==
    /\ pc = "done"
    /\ Len(maps_log) = 5
    /\ maps_log[5].op = "place"
    /\ maps_log[5].raised
    /\ maps_log[5].place_id = results[2].place_id
    /\ Len(reviews_data) >= 1

\* The business name of row i of reviews_data.
NameOfRow(i) == reviews_data[i].Business

\* The first row of reviews_data that carries the name of row i.
FirstRowOfName(i) ==
    CHOOSE k \in 1..i :
       /\ NameOfRow(k) = NameOfRow(i)
       /\ \A l \in 1..(k - 1) : NameOfRow(l) # NameOfRow(i)

\* The rows of every display name are next to each other in reviews_data.
NamesContiguous ==
    \A i, j, k \in 1..Len(reviews_data) :
       (i < j /\ j < k /\ NameOfRow(i) = NameOfRow(k)) =>
          NameOfRow(j) = NameOfRow(i)

\* C15 as stated: the reviews are handed to the extractor in the order in
\* which they were collected, whatever the display names.
C15_Original ==
    \A a, b \in 1..Len(sent) : a < b => sent[a] < sent[b]

\* C15 (amended): the reviews are handed to the extractor grouped by display
\* name: names in the order of their first collected review, and the reviews
\* of one name in the order in which they were collected; this is the order
\* of collection whenever the reviews of every name are next to each other
\* in the collected list.
C15_SentGroupedByName ==
    /\ \A a \in 1..Len(sent) : sent[a] \in 1..Len(reviews_data)
    /\ \A a, b \in 1..Len(sent) :
          a < b =>
             /\ FirstRowOfName(sent[a]) <= FirstRowOfName(sent[b])
             /\ NameOfRow(sent[a]) = NameOfRow(sent[b]) => sent[a] < sent[b]
    /\ NamesContiguous =>
          \A a, b \in 1..Len(sent) : a < b => sent[a] < sent[b]

\* Three businesses with one review each, the first and the third sharing a
\* display name: the review of the third was handed over before that of the
\* second.
C15_Witness ==
    /\ pc = "summary"
    /\ Len(results) = 3
    /\ sent = <<1, 3, 2>>

\* The extraction loop was entered and control has left it: for the
\* summary, for the bar charts, for the handler or for the end of the run.
ExtractionOver ==
    /\ uniq # <<>>
    /\ pc \in {"summary", "bars", "handler", "done"}

\* C16: no collected review is handed to the extractor twice, and once the
\* extraction loop is over every collected review has been handed to it
\* exactly once and has had its retry sequence: the number of settled retry
\* sequences equals the number of collected reviews.
C16_EveryReviewOnce ==
    /\ \A a, b \in 1..Len(sent) : a # b => sent[a] # sent[b]
    /\ ExtractionOver =>
          /\ { sent[a] : a \in 1..Len(sent) } = 1..Len(reviews_data)
          /\ extracted = Len(reviews_data)

\* Number of bar charts rendered for a business name.
BarCount(name) ==
    Cardinality({ i \in 1..Len(events) : events[i] = "bar:" \o name })

\* Number of bar charts rendered.
BarTotal ==
    Cardinality({ i \in 1..Len(events) :
                    events[i] \notin {"csv", "scatter", "llm", "table"} })

\* Some AspectSentiment row carries this business name.
HasRecord(name) ==
    \E i \in 1..Len(aspect_results) : aspect_results[i].Business = name

\* Some AspectSentiment row carries this business name and a sentiment.
HasLabelledRecord(name) ==
    \E i \in 1..Len(aspect_results) :
       /\ aspect_results[i].Business = name
       /\ aspect_results[i].Sentiment # NoneStr

\* The names the plotting loop goes through.
NamesOf(names) == { names[i] : i \in 1..Len(names) }

\* The script ran to its last line; the handler was not entered.
EndedNormally ==
    pc = "done" /\ exit_status = 0 /\ "An unexpected error occurred" \notin msgs

\* What C17 says whichever records count: at most one bar chart per name,
\* at most as many charts as names, and with no AspectSentiment row at all
\* no chart and no table but the message.
BarsAtMostOnce ==
    /\ \A name \in NamesOf(uniq) : BarCount(name) <= 1
    /\ BarTotal <= Len(uniq)
    /\ (EndedNormally /\ aspect_results = <<>>) =>
          /\ BarTotal = 0
          /\ ~HasTable
          /\ "No aspect sentiment detected." \in msgs
    /\ aspect_results # <<>> => "No aspect sentiment detected." \notin msgs

\* C17 as stated: in a run that ended normally with at least one
\* AspectSentiment row, a name has its bar chart exactly when some row
\* carries the name.
C17_Original ==
    /\ BarsAtMostOnce
    /\ (EndedNormally /\ aspect_results # <<>>) =>
          \A name \in NamesOf(uniq) : BarCount(name) = 1 <=> HasRecord(name)

\* C17 (amended): a bar chart is only ever rendered for a name that some
\* AspectSentiment row carries together with a sentiment, and in a run that
\* ended normally with at least one AspectSentiment row a name has its bar
\* chart exactly when there is such a row: a name whose rows all have a null
\* sentiment gets no chart.
C17_BarsForLabelledNames ==
    /\ BarsAtMostOnce
    /\ \A name \in NamesOf(uniq) : BarCount(name) = 1 => HasLabelledRecord(name)
    /\ (EndedNormally /\ aspect_results # <<>>) =>
          \A name \in NamesOf(uniq) :
             BarCount(name) = 1 <=> HasLabelledRecord(name)

\* A run that ended normally with a bar chart for one name and none for
\* another name, whose only row has a null sentiment.
C17_Witness ==
    /\ EndedNormally
    /\ \E n1, n2 \in NamesOf(uniq) :
          /\ BarCount(n1) = 1
          /\ BarCount(n2) = 0
          /\ HasRecord(n2)
          /\ ~HasLabelledRecord(n2)

====
